---- MODULE Spec2Model ----
(***************************************************************************)
(* Backup engine of Client/Client.py: the archive builder                  *)
(* (create_tarball_with_progress), its exclusion test, restore_backup, the *)
(* archive names of the backup operations, the configuration file          *)
(* (load_config, save_config) and the auto-backup scheduler                *)
(* (auto_backup_scheduler, _run_scheduler), together with the four server  *)
(* functions (upload, download, list, delete), the local listing, two      *)
(* overlapping calls of the scheduler entry point and of the builder, and  *)
(* the button handlers of app.py.                                          *)
(*                                                                         *)
(* Paths are sequences of characters, exactly the strings the code tests   *)
(* with str.startswith; a tree node is named by its path string.           *)
(***************************************************************************)
EXTENDS Integers, Sequences, FiniteSets, TLC

VARIABLES
    \* ---- filesystem seen by one build ----
    nodes,          \* set of path strings present below "/"
    fsize,          \* size in bytes of every present regular file
    noaccess,       \* present nodes for which os.access(p, R_OK) is false
    fs,             \* [dest, tmp] -> NoFile or an archive file
    \* ---- one call of create_tarball_with_progress ----
    source_path,    \* argument
    exclude_dirs,   \* argument (a set of path strings)
    pc,             \* position in the call
    walk,           \* directories os.walk still has to yield
    entryFailures,  \* number of per-entry failures so far
    failedOn,       \* paths whose add or size read failed in this build
    cause,          \* exception that reached the outer handlers, or "none"
    result,         \* value returned, or NoResult
    destBefore,     \* the file at dest_path when the call started
    totals,         \* (total_dirs, total_files, size) returned by scan_directory
    processed,      \* [dirs, files]: processed_dirs, processed_files
    \* ---- scheduler ----
    config_file,    \* content of the configuration file
    config,         \* the record the last call loaded from it
    cfgPc,          \* position in the running auto_backup_scheduler call
    jobs,           \* schedule's job table
    stopEvent,      \* _stop_scheduler_event
    schedThread,    \* _scheduler_thread: 0 (None) or a runner id
    runners,        \* runner id -> [pc, todo, cur]
    nThreads,       \* runner threads created so far
    callsMade,      \* auto_backup_scheduler calls started so far
    lastResult,     \* result of the last finished call
    joinTimedOut,   \* the last join(timeout=5) returned with the runner alive
    firings,        \* firing instants that have occurred
    runCount,       \* firing instant -> number of times a job ran for it
    \* ---- restore ----
    restore_path,   \* the restore directory: [exists, files]
    rpc,            \* position in the restore_backup call
    rresult,        \* value restore_backup returned, or NoResult
    failedMembers,  \* archive members whose extraction failed
    \* ---- archive names ----
    now,            \* the clock, in ticks
    backups,        \* the backup invocations so far: [subject, at, name]
    \* ---- one call of a network function ----
    netCall,        \* the call under way: [fn, args_ok]
    netPc,          \* position in the call
    requests,       \* requests this call has sent to the server
    response,       \* what requests.post gave: a response or an exception
    netResult,      \* value the call returned, or NoResult
    netCalls,       \* network calls started so far
    backup_dir,     \* file name -> state of that file in BACKUP_DIR
    listed,         \* what the last list_local_backups_headless returned
    \* ---- auto_backup_scheduler called from two threads ----
    callers,        \* calling thread -> [pc, config, result]
    \* ---- two builds with one dest_path ----
    builders,       \* build -> [pc, handle, cause, result]
    inodes,         \* the files created so far: [open, closed]
    names,          \* [dest, tmp] -> the file that name denotes, or 0
    \* ---- the GUI (app.py) ----
    logged_in_user, \* whether a user is logged in
    default_config, \* what the dict object DEFAULT_CONFIG holds
    handled,        \* the last handler call: [op, logged_in, valid, outcome]
    workers,        \* the worker threads the handlers started
    guiCalls        \* handler calls so far

buildVars == <<nodes, fsize, noaccess, fs, source_path, exclude_dirs, pc, walk,
               entryFailures, failedOn, cause, result, destBefore, totals,
               processed>>
schedVars == <<config_file, config, cfgPc, jobs, stopEvent, schedThread, runners, nThreads,
               callsMade, lastResult, joinTimedOut, firings, runCount>>
restoreVars == <<restore_path, rpc, rresult, failedMembers>>
namingVars == <<now, backups>>
netVars == <<netCall, netPc, requests, response, netResult, netCalls, backup_dir, listed>>
raceVars == <<callers>>
twinVars == <<builders, inodes, names>>
guiVars == <<logged_in_user, default_config, handled, workers, guiCalls>>
extVars == <<netVars, raceVars, twinVars, guiVars>>
vars == <<buildVars, schedVars, restoreVars, namingVars, extVars>>

\* File names of BACKUP_DIR, cut where glob's pattern "*.tar.gz" looks: the
\* archive of a build, its temporary file, and a file of the server.
N_local == <<"full_system", ".tar.gz">>
N_temp == N_local \o <<".tmp">>
N_server == <<"server_copy", ".tar.gz">>
Downloadable == {N_server}

NoResponse == [kind |-> "none", status |-> 0, body |-> "none"]
NetNoResult == [ok |-> FALSE, message |-> "no result"]

\* No network call under way, nothing downloaded, nothing listed.
NetIdle ==
    /\ netCall = [fn |-> "none", args_ok |-> TRUE]
    /\ netPc = "idle"
    /\ requests = 0
    /\ response = NoResponse
    /\ netResult = NetNoResult
    /\ netCalls = 0
    /\ backup_dir = [n \in Downloadable |-> "absent"]
    /\ listed = {}
\* No thread is inside auto_backup_scheduler.
RaceIdle == callers = <<>>
\* No two builds share a destination.
TwinIdle == builders = <<>> /\ inodes = <<>> /\ names = [dest |-> 0, tmp |-> 0]

----------------------------------------------------------------------------
\* Bounds of the model.
MaxEntryFailures == 1
MaxCalls == 2
MaxFirings == 2
MaxExtractFailures == 1
MaxBackups == 2
MaxTicks == 3
TicksPerSecond == 2

----------------------------------------------------------------------------
\* Path strings.

SEP == "/"

\* str.startswith
StartsWith(s, prefix) ==
    /\ Len(prefix) <= Len(s)
    /\ SubSeq(s, 1, Len(prefix)) = prefix

\* os.path.normpath on the absolute POSIX paths used here: a trailing
\* separator is dropped (the root "/" keeps its own).
RECURSIVE normpath(_)
normpath(p) ==
    IF Len(p) > 1 /\ p[Len(p)] = SEP THEN normpath(SubSeq(p, 1, Len(p) - 1))
    ELSE p

----------------------------------------------------------------------------
\* The filesystem the build reads: candidate paths below "/".  "/v/l" plays
\* "/var/log" and BACKUP_DIR of EXCLUDE_DIRS, "/v/lx" a sibling whose name
\* extends it, and "/v/l/t" is where temp_dest_path lies, BACKUP_DIR being the
\* directory of every dest_path the backup operations compute.

ROOT  == <<"/">>
P_f   == <<"/", "f">>
P_v   == <<"/", "v">>
P_vg  == <<"/", "v", "/", "g">>
P_vl  == <<"/", "v", "/", "l">>
P_vlf == <<"/", "v", "/", "l", "/", "f">>
P_tmp == <<"/", "v", "/", "l", "/", "t">>
P_vx  == <<"/", "v", "/", "l", "x">>
P_vxf == <<"/", "v", "/", "l", "x", "/", "f">>

\* Every candidate, in the order sorted() gives their strings.
CandOrder == <<P_f, P_v, P_vg, P_vl, P_vlf, P_tmp, P_vx, P_vxf>>
Cands     == {CandOrder[i] : i \in 1..Len(CandOrder)} \ {P_tmp}
DirCands  == {P_v, P_vl, P_vx}
FileCands == Cands \ DirCands
BACKUP_DIR == P_vl

\* os.path.dirname of an absolute path
LastSep(p) == CHOOSE i \in 1..Len(p) : p[i] = SEP /\ \A j \in (i + 1)..Len(p) : p[j] # SEP
dirname(p) == IF LastSep(p) = 1 THEN ROOT ELSE SubSeq(p, 1, LastSep(p) - 1)

\* os.path.relpath(p, start) for p below start
relpath(p, start) ==
    IF start = ROOT THEN SubSeq(p, 2, Len(p))
    ELSE SubSeq(p, Len(start) + 2, Len(p))

IsDir(p)  == p = ROOT \/ (p \in nodes /\ p \in DirCands)

\* The two names of the archive in BACKUP_DIR, as keys of fs.
dest_path == "dest"
\* Faulty variant: the archive is written straight to dest_path.
temp_dest_path_is_dest == dest_path
\* temp_dest_path = dest_path + ".tmp"
temp_dest_path == "tmp"

\* The temporary archive is a file of BACKUP_DIR from tarfile.open on (and
\* before, when an earlier run left one).
Present(n) ==
    \/ n \in nodes
    \/ n = P_tmp /\ BACKUP_DIR \in nodes /\ fs[temp_dest_path].kind # "none"

\* os.path.getsize; the temporary archive has a size below the cap.
getsize(p) == IF p = P_tmp THEN 1 ELSE fsize[p]

\* The entries of directory d, sorted by name.
SortedChildren(d) == SelectSeq(CandOrder, LAMBDA n : Present(n) /\ dirname(n) = d)
SortedDirs(d)     == SelectSeq(SortedChildren(d), LAMBDA n : n \in DirCands)
SortedFiles(d)    == SelectSeq(SortedChildren(d), LAMBDA n : n \notin DirCands)

SeqToSet(q) == {q[i] : i \in 1..Len(q)}

----------------------------------------------------------------------------
\* Constants of Client.py.

FILE_SIZE_LIMIT == 500 * 1024 * 1024
EXCLUDE_DIRS == {P_vl}

\* Faulty variant: only the listed paths themselves are excluded, not what
\* lies below them.
is_excluded_exact(p, excluded) == p \in excluded

\* The exclusion test of scan_directory and create_tarball_with_progress:
\*   p in excluded or any(p.startswith(e) for e in excluded)
is_excluded(p, excluded) ==
    \/ p \in excluded
    \/ \E e \in excluded : StartsWith(p, e)

\* excluded_normalized_paths
normalized(dirs) == {normpath(d) : d \in dirs}

----------------------------------------------------------------------------
\* Files of the backup directory.

NoFile == [kind |-> "none"]
Archive(complete, origin, entries) ==
    [kind |-> "archive", complete |-> complete, origin |-> origin, entries |-> entries]
Exists(f) == f.kind # "none"

Entry(p) == [src |-> p, arcname |-> relpath(p, source_path)]

\* tarfile's TarFile.add(name, arcname) as called by the build, with its
\* default recursive=True: a regular file is opened and appended; a
\* directory gets its entry and then every name in sorted(os.listdir(name)) is
\* added in turn.  An unreadable file or directory raises, which ends the
\* whole call; what was appended before stays in the archive.
\* TarFile.add returns at once, adding nothing, when the name it is given is
\* the archive it writes.
RECURSIVE TarAdd(_), TarAddAll(_, _)
\* Faulty variant: the archive under construction is added like any file.
IsOwnArchiveNever(p) == FALSE
IsOwnArchive(p) == p = P_tmp
TarAdd(p) ==
    IF IsOwnArchive(p) THEN [entries |-> <<>>, ok |-> TRUE]
    ELSE IF p \notin DirCands
    THEN IF p \in noaccess THEN [entries |-> <<>>, ok |-> FALSE]
         ELSE [entries |-> <<Entry(p)>>, ok |-> TRUE]
    ELSE IF p \in noaccess THEN [entries |-> <<Entry(p)>>, ok |-> FALSE]
         ELSE TarAddAll(<<Entry(p)>>, SortedChildren(p))
TarAddAll(acc, kids) ==
    IF kids = <<>> THEN [entries |-> acc, ok |-> TRUE]
    ELSE LET r == TarAdd(Head(kids))
         IN  IF r.ok THEN TarAddAll(acc \o r.entries, Tail(kids))
             ELSE [entries |-> acc \o r.entries, ok |-> FALSE]

\* dirs[:] = [d for d in dirs if not excluded(d)]
PruneDirs(top, excluded) ==
    SelectSeq(SortedDirs(top), LAMBDA d : ~is_excluded(normpath(d), excluded))

\* scan_directory(path): os.walk with the directories pruned by EXCLUDE_DIRS;
\* os.walk yields nothing for a directory it cannot list.
RECURSIVE ScanFrom(_), ScanAll(_, _)
ScanFrom(top) ==
    IF ~IsDir(top) \/ top \in noaccess THEN [dirs |-> 0, files |-> 0, size |-> 0]
    ELSE LET kept    == PruneDirs(top, normalized(EXCLUDE_DIRS))
             counted == SelectSeq(SortedFiles(top),
                            LAMBDA f : ~\E e \in normalized(EXCLUDE_DIRS) : StartsWith(normpath(f), e))
             RECURSIVE Sum(_)
             Sum(q) == IF q = <<>> THEN 0 ELSE getsize(Head(q)) + Sum(Tail(q))
         IN  ScanAll([dirs |-> Len(kept), files |-> Len(counted), size |-> Sum(counted)], kept)
ScanAll(acc, ds) ==
    IF ds = <<>> THEN acc
    ELSE LET r == ScanFrom(Head(ds))
         IN  ScanAll([dirs |-> acc.dirs + r.dirs, files |-> acc.files + r.files,
                      size |-> acc.size + r.size], Tail(ds))
scan_directory(path) == ScanFrom(path)

----------------------------------------------------------------------------
\* create_tarball_with_progress(source_path, dest_path, exclude_dirs)

NoResult == [kind |-> "none"]
Returned(ok, why) == [kind |-> "returned", ok |-> ok, cause |-> why]
Raised(why) == [kind |-> "raised", cause |-> why]

\* One pass of "for directory in dirs" (lines 159-173).  `bad` are the paths
\* whose add fails on its own (vanished, I/O error).  The except clause keeps
\* every failure inside the loop: raised is always FALSE.
AddDirEntry(d, excluded, bad) ==
    IF is_excluded(normpath(d), excluded) \/ d \in noaccess
    THEN [entries |-> <<>>, added |-> 0, raised |-> FALSE]
    ELSE IF d \in bad THEN [entries |-> <<>>, added |-> 0, raised |-> FALSE]
    ELSE LET r == TarAdd(d)
         IN  [entries |-> r.entries, added |-> IF r.ok THEN 1 ELSE 0, raised |-> FALSE]

\* Faulty variant: a failing size read or add escapes the loop.
AddFileEntryUncaught(f, excluded, bad) ==
    IF is_excluded(normpath(f), excluded) \/ f \in noaccess
    THEN [entries |-> <<>>, added |-> 0, raised |-> FALSE]
    ELSE IF f \in bad THEN [entries |-> <<>>, added |-> 0, raised |-> TRUE]
    ELSE IF getsize(f) > FILE_SIZE_LIMIT THEN [entries |-> <<>>, added |-> 0, raised |-> FALSE]
    ELSE LET r == TarAdd(f)
         IN  [entries |-> r.entries, added |-> IF r.ok THEN 1 ELSE 0, raised |-> ~r.ok]

\* One pass of "for file in files" (lines 176-203).
AddFileEntry(f, excluded, bad) ==
    IF is_excluded(normpath(f), excluded) \/ f \in noaccess
    THEN [entries |-> <<>>, added |-> 0, raised |-> FALSE]
    ELSE IF f \in bad THEN [entries |-> <<>>, added |-> 0, raised |-> FALSE]
    ELSE IF getsize(f) > FILE_SIZE_LIMIT THEN [entries |-> <<>>, added |-> 0, raised |-> FALSE]
    ELSE LET r == TarAdd(f)
         IN  [entries |-> r.entries, added |-> IF r.ok THEN 1 ELSE 0, raised |-> FALSE]

\* The two loops over one yielded directory, stopping where an exception
\* leaves them.
RECURSIVE AddDirs(_, _, _, _), AddFiles(_, _, _, _)
AddDirs(ds, excluded, bad, acc) ==
    IF ds = <<>> \/ acc.raised THEN acc
    ELSE LET r == AddDirEntry(Head(ds), excluded, bad)
         IN  AddDirs(Tail(ds), excluded, bad,
                     [entries |-> acc.entries \o r.entries, dirs |-> acc.dirs + r.added,
                      files |-> acc.files, raised |-> r.raised])
AddFiles(fl, excluded, bad, acc) ==
    IF fl = <<>> \/ acc.raised THEN acc
    ELSE LET r == AddFileEntry(Head(fl), excluded, bad)
         IN  AddFiles(Tail(fl), excluded, bad,
                      [entries |-> acc.entries \o r.entries, dirs |-> acc.dirs,
                       files |-> acc.files + r.added, raised |-> r.raised])

\* The children of `top` whose size read or add is attempted at all.
Attempted(top, excluded) ==
    {n \in SeqToSet(PruneDirs(top, excluded)) : n \notin noaccess}
    \cup {f \in SeqToSet(SortedFiles(top)) :
            ~is_excluded(normpath(f), excluded) /\ f \notin noaccess}

\* Lines 141-149: the scan, then tarfile.open(temp_dest_path, "w:gz").
OpenTar ==
    /\ pc = "start"
    /\ totals' = scan_directory(source_path)
    /\ \E ok \in BOOLEAN :
        IF ok
        THEN /\ fs' = [fs EXCEPT ![temp_dest_path] = Archive(FALSE, "build", <<>>)]
             /\ pc' = "walk"
             /\ walk' = <<source_path>>
             /\ UNCHANGED cause
        ELSE /\ pc' = "finally"
             /\ cause' = "open"
             /\ UNCHANGED <<fs, walk>>
    /\ UNCHANGED <<nodes, fsize, noaccess, source_path, exclude_dirs, entryFailures,
                   failedOn, result, destBefore, processed>>

\* One iteration of "for root, dirs, files in os.walk(source_path)".
WalkDir ==
    /\ pc = "walk"
    /\ walk # <<>>
    /\ LET top      == Head(walk)
           excluded == normalized(exclude_dirs)
       IN  IF ~IsDir(top) \/ top \in noaccess
           THEN /\ walk' = Tail(walk)
                /\ UNCHANGED <<fs, entryFailures, failedOn, processed, pc, cause>>
           ELSE \E bad \in SUBSET Attempted(top, excluded) :
                /\ entryFailures + Cardinality(bad) <= MaxEntryFailures
                /\ LET kept == PruneDirs(top, excluded)
                       a == AddDirs(kept, excluded, bad,
                                [entries |-> fs[temp_dest_path].entries,
                                 dirs |-> processed.dirs, files |-> processed.files,
                                 raised |-> FALSE])
                       b == AddFiles(SortedFiles(top), excluded, bad, a)
                   IN  /\ fs' = [fs EXCEPT ![temp_dest_path].entries = b.entries]
                       /\ processed' = [dirs |-> b.dirs, files |-> b.files]
                       /\ IF b.raised
                          THEN /\ pc' = "finally"
                               /\ cause' = "entry"
                               /\ UNCHANGED walk
                          ELSE /\ walk' = kept \o Tail(walk)
                               /\ UNCHANGED <<pc, cause>>
                /\ entryFailures' = entryFailures + Cardinality(bad)
                /\ failedOn' = failedOn \cup bad
    /\ UNCHANGED <<nodes, fsize, noaccess, source_path, exclude_dirs, result,
                   destBefore, totals>>

\* Leaving the with block: tar.close() writes the end of the archive.
CloseTar ==
    /\ pc = "walk"
    /\ walk = <<>>
    /\ \E ok \in BOOLEAN :
        IF ok
        THEN /\ fs' = [fs EXCEPT ![temp_dest_path].complete = TRUE]
             /\ pc' = "rename"
             /\ UNCHANGED cause
        ELSE /\ pc' = "finally"
             /\ cause' = "close"
             /\ UNCHANGED fs
    /\ UNCHANGED <<nodes, fsize, noaccess, source_path, exclude_dirs, walk, entryFailures,
                   failedOn, result, destBefore, totals, processed>>

\* Line 205: os.rename(temp_dest_path, dest_path).
Rename ==
    /\ pc = "rename"
    /\ \E ok \in BOOLEAN :
        IF ok
        THEN /\ fs' = [fs EXCEPT ![dest_path] = fs[temp_dest_path],
                                 ![temp_dest_path] = NoFile]
             /\ UNCHANGED cause
        ELSE /\ cause' = "rename"
             /\ UNCHANGED fs
    /\ pc' = "finally"
    /\ UNCHANGED <<nodes, fsize, noaccess, source_path, exclude_dirs, walk, entryFailures,
                   failedOn, result, destBefore, totals, processed>>

\* Faulty variant: no finally clause.
FinallyNoCleanup ==
    /\ pc = "finally"
    /\ result' = Returned(cause = "none", cause)
    /\ pc' = "done"
    /\ UNCHANGED <<nodes, fsize, noaccess, fs, source_path, exclude_dirs, walk,
                   entryFailures, failedOn, cause, destBefore, totals, processed>>

\* specific_directory_backup(directory), lines 242-244: a directory that does
\* not exist is answered with a failure before a name is computed or the
\* build is called.
SpecificRejected ==
    /\ pc = "start"
    /\ exclude_dirs = {}
    /\ source_path \notin nodes \cup {ROOT}
    /\ pc' = "rejected"
    /\ result' = Returned(FALSE, "directory")
    /\ UNCHANGED <<nodes, fsize, noaccess, fs, source_path, exclude_dirs, walk,
                   entryFailures, failedOn, cause, destBefore, totals, processed>>

\* Lines 207-218: the return value is fixed by the try or except clause, then
\* the finally clause removes the temporary file if it exists; os.remove
\* failing there replaces the return by its exception.
Finally ==
    /\ pc = "finally"
    /\ \E removed \in BOOLEAN :
        /\ ~Exists(fs[temp_dest_path]) => removed
        /\ IF Exists(fs[temp_dest_path]) /\ ~removed
           THEN /\ result' = Raised("remove")
                /\ UNCHANGED fs
           ELSE /\ result' = Returned(cause = "none", cause)
                /\ fs' = [fs EXCEPT ![temp_dest_path] = NoFile]
    /\ pc' = "done"
    /\ UNCHANGED <<nodes, fsize, noaccess, source_path, exclude_dirs, walk, entryFailures,
                   failedOn, cause, destBefore, totals, processed>>

----------------------------------------------------------------------------
\* Configuration records.  specific_dir is kept as whether os.path.isdir holds
\* of it; time is "HH:MM" (well formed), "25:99" (time.strptime raises
\* ValueError) or "H:MM" (time.strptime accepts it, schedule's at() does not).

\* `keys` are the keys the record holds: a record read from the file holds
\* whatever was written there, and config.get(k) of an absent key is None.
ConfigKeys == {"auto_backup_enabled", "backup_type", "specific_dir", "frequency", "time"}

\* The record line 21 builds; default_config is what the object holds now.
DEFAULT_CONFIG ==
    [keys |-> ConfigKeys,
     auto_backup_enabled |-> FALSE, backup_type |-> "specific", dir_exists |-> TRUE,
     frequency |-> "daily", time |-> "HH:MM"]

\* The GUI has handled nothing and DEFAULT_CONFIG is as line 21 built it.
NotHandled == [op |-> "none", logged_in |-> FALSE, valid |-> FALSE, outcome |-> "none"]
GuiIdle ==
    /\ logged_in_user = FALSE
    /\ default_config = DEFAULT_CONFIG
    /\ handled = NotHandled
    /\ workers = <<>>
    /\ guiCalls = 0
ExtIdle == NetIdle /\ RaceIdle /\ TwinIdle /\ GuiIdle

ValidConfigs ==
    {[keys |-> ConfigKeys,
      auto_backup_enabled |-> TRUE, backup_type |-> t, dir_exists |-> TRUE,
      frequency |-> f, time |-> "HH:MM"] :
        t \in {"full", "specific"}, f \in {"daily", "weekly", "monthly"}}
\* Every valid record, the disabled default, a valid record with one field
\* made wrong or with the key "time" left out, and the empty record.
BaseConfig ==
    [keys |-> ConfigKeys,
     auto_backup_enabled |-> TRUE, backup_type |-> "specific", dir_exists |-> TRUE,
     frequency |-> "daily", time |-> "HH:MM"]
Configs ==
    ValidConfigs
    \cup {DEFAULT_CONFIG}
    \cup {[BaseConfig EXCEPT !.backup_type = "other"],
          [BaseConfig EXCEPT !.dir_exists = FALSE],
          [BaseConfig EXCEPT !.frequency = "fortnightly"],
          [BaseConfig EXCEPT !.time = "25:99"],
          [BaseConfig EXCEPT !.time = "H:MM"],
          [BaseConfig EXCEPT !.keys = ConfigKeys \ {"time"}],
          [BaseConfig EXCEPT !.keys = {}]}

\* The file at CONFIG_FILE: absent, not openable for reading, not JSON, or the
\* JSON of a record.
ConfigFile(state, c) == [state |-> state, content |-> c]
FileStates == {"missing", "unreadable", "malformed"}

\* load_config(): the record returned and the file left behind.  A missing file
\* is first written with the defaults; `saved` tells whether that write
\* succeeded.  Every failure to open or parse returns DEFAULT_CONFIG, the
\* object itself.
load_config(file, saved) ==
    IF file.state = "missing"
    THEN [config |-> default_config,
          file   |-> IF saved THEN ConfigFile("ok", default_config) ELSE file]
    ELSE IF file.state \in {"unreadable", "malformed"}
    THEN [config |-> default_config, file |-> file]
    ELSE [config |-> file.content, file |-> file]

\* Lines 500-523: what the checks make of the loaded record.
\* time.strptime(None, "%H:%M") raises TypeError, which line 521 does not catch.
Validate(c) ==
    IF ~("auto_backup_enabled" \in c.keys /\ c.auto_backup_enabled) THEN "disabled"
    ELSE IF "backup_type" \notin c.keys \/ c.backup_type \notin {"full", "specific"}
    THEN "invalid"
    ELSE IF c.backup_type = "specific" /\ ("specific_dir" \notin c.keys \/ ~c.dir_exists)
    THEN "invalid"
    ELSE IF "frequency" \notin c.keys \/ c.frequency \notin {"daily", "weekly", "monthly"}
    THEN "invalid"
    ELSE IF "time" \notin c.keys THEN "raises"
    ELSE IF c.time = "25:99" THEN "invalid"
    ELSE "valid"

\* A job of the schedule library: due once its next_run has been reached, and
\* until run() has rescheduled it.
Job(id, c) ==
    [id |-> id, frequency |-> c.frequency, time |-> c.time, backup_type |-> c.backup_type,
     due |-> FALSE, firing |-> 0, first |-> FALSE, sunday |-> FALSE]

\* Faulty variant: the weekly job is registered with every().day like the
\* others.
FiresOnEveryDay(frequency, sunday) == TRUE
\* Lines 538-552: every().day.at(time) for daily and monthly,
\* every().sunday.at(time) for weekly: whether the job is due when the
\* configured time of a day arrives.
FiresOn(frequency, sunday) == frequency = "weekly" => sunday

\* schedule.clear()
schedule_clear(table) == <<>>

Alive(r) == r \in 1..Len(runners) /\ runners[r].pc # "dead"
AliveRunners == {r \in 1..Len(runners) : Alive(r)}

\* save_config(config): the caller writes a record before it reconfigures.
save_config ==
    /\ cfgPc = "idle"
    /\ callsMade < MaxCalls
    /\ \E c \in Configs :
        /\ ConfigFile("ok", c) # config_file
        /\ config_file' = ConfigFile("ok", c)
    /\ UNCHANGED <<config, cfgPc, jobs, stopEvent, schedThread, runners, nThreads,
                   callsMade, lastResult, joinTimedOut, firings, runCount>>

\* The file at CONFIG_FILE is removed, made unreadable or overwritten with
\* something that is not JSON: the cases load_config provides for.
ConfigFileDamaged ==
    /\ cfgPc = "idle"
    /\ callsMade < MaxCalls
    /\ \E st \in FileStates :
        /\ ConfigFile(st, DEFAULT_CONFIG) # config_file
        /\ config_file' = ConfigFile(st, DEFAULT_CONFIG)
    /\ UNCHANGED <<config, cfgPc, jobs, stopEvent, schedThread, runners, nThreads,
                   callsMade, lastResult, joinTimedOut, firings, runCount>>

\* auto_backup_scheduler, lines 483-485: a live runner is told to stop.
CallEntered ==
    /\ callsMade' = callsMade + 1
    /\ lastResult' = "running"
    /\ joinTimedOut' = FALSE
    /\ IF Alive(schedThread)
       THEN stopEvent' = TRUE /\ cfgPc' = "join"
       ELSE UNCHANGED stopEvent /\ cfgPc' = "clear"
CfgBegin ==
    /\ cfgPc = "idle"
    /\ callsMade < MaxCalls
    /\ CallEntered
    /\ UNCHANGED <<config_file, config, jobs, schedThread, runners, nThreads, firings,
                   runCount>>

\* Faulty variant: join() without a timeout returns only when the runner has
\* exited.
CfgJoinUnbounded ==
    /\ cfgPc = "join"
    /\ ~Alive(schedThread)
    /\ joinTimedOut' = FALSE
    /\ cfgPc' = "clear"
    /\ UNCHANGED <<config_file, config, jobs, stopEvent, schedThread, runners, nThreads,
                   callsMade, lastResult, firings, runCount>>

\* Lines 486-490: join(timeout=5) returns when the runner has exited, or after
\* five seconds with the runner still alive; an idle runner tests the event
\* every second, so only a runner inside a backup job outlasts the wait.
CfgJoin ==
    /\ cfgPc = "join"
    /\ \/ ~Alive(schedThread) /\ joinTimedOut' = FALSE
       \/ Alive(schedThread) /\ runners[schedThread].pc = "job" /\ joinTimedOut' = TRUE
    /\ cfgPc' = "clear"
    /\ UNCHANGED <<config_file, config, jobs, stopEvent, schedThread, runners, nThreads,
                   callsMade, lastResult, firings, runCount>>

\* Line 493: _stop_scheduler_event.clear()
CfgClearEvent ==
    /\ cfgPc = "clear"
    /\ stopEvent' = FALSE
    /\ cfgPc' = "apply"
    /\ UNCHANGED <<config_file, config, jobs, schedThread, runners, nThreads, callsMade,
                   lastResult, joinTimedOut, firings, runCount>>

\* Lines 495-552: load the record, clear the job table, validate, register.
CfgApply ==
    /\ cfgPc = "apply"
    /\ \E saved \in BOOLEAN :
        LET loaded  == load_config(config_file, saved)
            cleared == schedule_clear(jobs)
            verdict == Validate(loaded.config)
        IN  /\ config' = loaded.config
            /\ config_file' = loaded.file
            /\ IF verdict \in {"disabled", "invalid"}
               THEN /\ jobs' = cleared
                    /\ lastResult' = "False"
                    /\ cfgPc' = "idle"
               ELSE IF verdict = "raises" \/ loaded.config.time = "H:MM"
               THEN /\ jobs' = cleared
                    /\ lastResult' = "raised"
                    /\ cfgPc' = "idle"
               ELSE /\ jobs' = Append(cleared, Job(callsMade, loaded.config))
                    /\ cfgPc' = "start"
                    /\ UNCHANGED lastResult
    /\ UNCHANGED <<stopEvent, schedThread, runners, nThreads, callsMade,
                   joinTimedOut, firings, runCount>>

NewRunner == [pc |-> "check", todo |-> <<>>]

\* Faulty variant: a new runner is started whatever the old one does.
CfgStartThreadAlways ==
    /\ cfgPc = "start"
    /\ runners' = Append(runners, NewRunner)
    /\ schedThread' = Len(runners) + 1
    /\ nThreads' = nThreads + 1
    /\ lastResult' = "True"
    /\ cfgPc' = "idle"
    /\ UNCHANGED <<config_file, config, jobs, stopEvent, callsMade, joinTimedOut, firings,
                   runCount>>

\* Lines 554-562: start a runner unless the old one is still alive.
CfgStartThread ==
    /\ cfgPc = "start"
    /\ IF ~Alive(schedThread)
       THEN /\ runners' = Append(runners, NewRunner)
            /\ schedThread' = Len(runners) + 1
            /\ nThreads' = nThreads + 1
       ELSE UNCHANGED <<runners, schedThread, nThreads>>
    /\ lastResult' = "True"
    /\ cfgPc' = "idle"
    /\ UNCHANGED <<config_file, config, jobs, stopEvent, callsMade, joinTimedOut, firings,
                   runCount>>

\* _run_scheduler, line 470: while not _stop_scheduler_event.is_set()
RunnerCheck(r) ==
    /\ Alive(r) /\ runners[r].pc = "check"
    /\ runners' = [runners EXCEPT ![r].pc = IF stopEvent THEN "exiting" ELSE "pending"]
    /\ UNCHANGED <<config_file, config, cfgPc, jobs, stopEvent, schedThread, nThreads,
                   callsMade, lastResult, joinTimedOut, firings, runCount>>

\* The loop has been left: the thread function returns and the thread stops
\* being alive.
RunnerExit(r) ==
    /\ Alive(r) /\ runners[r].pc = "exiting"
    /\ runners' = [runners EXCEPT ![r].pc = "dead"]
    /\ UNCHANGED <<config_file, config, cfgPc, jobs, stopEvent, schedThread, nThreads,
                   callsMade, lastResult, joinTimedOut, firings, runCount>>

\* schedule.run_pending(): the jobs that are due now, taken as a list.
RunnerRunPending(r) ==
    /\ Alive(r) /\ runners[r].pc = "pending"
    /\ LET runnable == SelectSeq(jobs, LAMBDA j : j.due)
       IN  runners' = [runners EXCEPT ![r].todo = runnable,
                                      ![r].pc = IF runnable = <<>> THEN "sleep" ELSE "run"]
    /\ UNCHANGED <<config_file, config, cfgPc, jobs, stopEvent, schedThread, nThreads,
                   callsMade, lastResult, joinTimedOut, firings, runCount>>

\* The job function of a monthly job is the lambda of line 551: the backup
\* runs only on day 1 of the month.
RunsBackup(j) == j.frequency = "monthly" => j.first

\* run() has rescheduled job j: it is no longer due.
Rescheduled(table, j) ==
    [i \in 1..Len(table) |-> IF table[i].id = j.id THEN [table[i] EXCEPT !.due = FALSE]
                             ELSE table[i]]

\* The next due job starts: scheduled_backup_task is entered, or the monthly
\* lambda returns at once.
RunnerJobStart(r) ==
    /\ Alive(r) /\ runners[r].pc = "run"
    /\ LET j == Head(runners[r].todo)
       IN  IF RunsBackup(j)
           THEN /\ runCount' = [runCount EXCEPT ![j.firing] = @ + 1]
                /\ runners' = [runners EXCEPT ![r].pc = "job"]
                /\ UNCHANGED jobs
           ELSE /\ jobs' = Rescheduled(jobs, j)
                /\ runners' = [runners EXCEPT
                       ![r].todo = Tail(@),
                       ![r].pc = IF Tail(runners[r].todo) = <<>> THEN "sleep" ELSE "run"]
                /\ UNCHANGED runCount
    /\ UNCHANGED <<config_file, config, cfgPc, stopEvent, schedThread, nThreads, callsMade,
                   lastResult, joinTimedOut, firings>>

\* How a call of create_tarball_with_progress ends: (True, ...), (False, ...),
\* or with the exception of the os.remove of its finally block.
BuildOutcomes == {"ok", "failed", "raised"}

\* full_system_backup: the whole body is inside try/except Exception.
full_system_backup(built) == IF built = "raised" THEN "failed" ELSE built

\* specific_directory_backup: a missing directory is a failure result; the
\* result of the build, or its exception, passes through.
specific_directory_backup(dir_exists, built) == IF ~dir_exists THEN "failed" ELSE built

\* scheduled_backup_task (lines 525-536) logs the result it gets and handles
\* no exception.
scheduled_backup_task(backup_type, dir_exists, built) ==
    IF backup_type = "full" THEN full_system_backup(built)
    ELSE specific_directory_backup(dir_exists, built)

\* The backup ends.  If it returned, run() reschedules the job; if it raised,
\* the exception passes through run_pending() and _run_scheduler, the thread
\* ends, and the job stays as it was.
RunnerJobDone(r) ==
    /\ Alive(r) /\ runners[r].pc = "job"
    /\ \E dir_exists \in BOOLEAN, built \in BuildOutcomes :
        LET j == Head(runners[r].todo)
        IN  IF scheduled_backup_task(j.backup_type, dir_exists, built) = "raised"
            THEN /\ runners' = [runners EXCEPT ![r].todo = <<>>, ![r].pc = "dead"]
                 /\ UNCHANGED jobs
            ELSE /\ jobs' = Rescheduled(jobs, j)
                 /\ runners' = [runners EXCEPT
                        ![r].todo = Tail(@),
                        ![r].pc = IF Tail(runners[r].todo) = <<>> THEN "sleep" ELSE "run"]
    /\ UNCHANGED <<config_file, config, cfgPc, stopEvent, schedThread, nThreads, callsMade,
                   lastResult, joinTimedOut, firings, runCount>>

\* Line 472: time.sleep(1)
RunnerSleep(r) ==
    /\ Alive(r) /\ runners[r].pc = "sleep"
    /\ runners' = [runners EXCEPT ![r].pc = "check"]
    /\ UNCHANGED <<config_file, config, cfgPc, jobs, stopEvent, schedThread, nThreads,
                   callsMade, lastResult, joinTimedOut, firings, runCount>>

\* The clock reaches the configured time of the next day, which may be a
\* Sunday and may be day 1 of the month.  The weekday is read by the weekly
\* job only and the day of the month by the monthly lambda only, so a job
\* keeps of the day what it reads.
Fire ==
    /\ firings < MaxFirings
    /\ jobs # <<>>
    /\ \A i \in 1..Len(jobs) : ~jobs[i].due
    /\ firings' = firings + 1
    /\ \E first \in BOOLEAN, sunday \in BOOLEAN :
        jobs' = [i \in 1..Len(jobs) |->
                    [jobs[i] EXCEPT !.due = FiresOn(jobs[i].frequency, sunday),
                                    !.firing = firings + 1,
                                    !.first = (jobs[i].frequency = "monthly" /\ first),
                                    !.sunday = (jobs[i].frequency = "weekly" /\ sunday)]]
    /\ runCount' = Append(runCount, 0)
    /\ UNCHANGED <<config_file, config, cfgPc, stopEvent, schedThread, runners, nThreads,
                   callsMade, lastResult, joinTimedOut>>

----------------------------------------------------------------------------
\* restore_backup(backup_file, restore_path), with the archive at dest_path as
\* backup_file.

\* What the archive holds for path p: the bytes of p as they were read.
content(p) == [of |-> p, size |-> IF p \in FileCands THEN fsize[p] ELSE 0]

\* The directories above a member name, e.g. "l" for "l/f".
ArcParents(a) == {SubSeq(a, 1, i - 1) : i \in {k \in 1..Len(a) : a[k] = SEP}}

\* tar.extract(member, restore_path): missing parent directories are made,
\* and the member is written at its name, over what is there.
ExtractMember(files, e) ==
    LET present == {f.path : f \in files}
        parents == {[path |-> a, kind |-> "dir", data |-> [of |-> <<>>, size |-> 0]] :
                       a \in ArcParents(e.arcname) \ present}
        member  == [path |-> e.arcname,
                    kind |-> IF e.src \in DirCands THEN "dir" ELSE "file",
                    data |-> content(e.src)]
    IN  {f \in files : f.path # e.arcname} \cup parents \cup {member}

\* Faulty variant: the first member that fails to extract ends the loop.
RECURSIVE ExtractAllUncaught(_, _, _, _)
ExtractAllUncaught(files, members, i, bad) ==
    IF i > Len(members) THEN [files |-> files, raised |-> FALSE]
    ELSE IF i \in bad THEN [files |-> files, raised |-> TRUE]
    ELSE ExtractAllUncaught(ExtractMember(files, members[i]), members, i + 1, bad)

\* Lines 278-283: every member in turn; the members numbered in `bad` fail to
\* extract, which is logged and passed over.
RECURSIVE ExtractAll(_, _, _, _)
ExtractAll(files, members, i, bad) ==
    IF i > Len(members) THEN [files |-> files, raised |-> FALSE]
    ELSE IF i \in bad THEN ExtractAll(files, members, i + 1, bad)
    ELSE ExtractAll(ExtractMember(files, members[i]), members, i + 1, bad)

\* Faulty variant: the restore directory is made before the archive is
\* looked for.
RestoreBeginMakesDir ==
    /\ pc \in {"done", "rejected"}
    /\ rpc = "idle"
    /\ restore_path' = [restore_path EXCEPT !.exists = TRUE]
    /\ IF ~Exists(fs[dest_path])
       THEN rresult' = Returned(FALSE, "missing") /\ rpc' = "done"
       ELSE rpc' = "open" /\ UNCHANGED rresult
    /\ UNCHANGED failedMembers

\* Lines 261-271: the archive must exist; a missing restore directory is made.
RestoreBegin ==
    /\ pc \in {"done", "rejected"}
    /\ rpc = "idle"
    /\ IF ~Exists(fs[dest_path])
       THEN /\ rresult' = Returned(FALSE, "missing")
            /\ rpc' = "done"
            /\ UNCHANGED restore_path
       ELSE IF restore_path.exists
       THEN /\ rpc' = "open"
            /\ UNCHANGED <<rresult, restore_path>>
       ELSE \E made \in BOOLEAN :
              IF made
              THEN /\ restore_path' = [restore_path EXCEPT !.exists = TRUE]
                   /\ rpc' = "open"
                   /\ UNCHANGED rresult
              ELSE /\ rresult' = Returned(FALSE, "makedirs")
                   /\ rpc' = "done"
                   /\ UNCHANGED restore_path
    /\ UNCHANGED failedMembers

\* Lines 275-277: tarfile.open(backup_file, "r:gz") and getmembers() raise for
\* a file that cannot be read or is not a whole archive.
RestoreOpen ==
    /\ rpc = "open"
    /\ \E readable \in BOOLEAN :
        IF readable /\ fs[dest_path].complete
        THEN /\ rpc' = "extract"
             /\ UNCHANGED rresult
        ELSE /\ rresult' = Returned(FALSE, "open")
             /\ rpc' = "done"
    /\ UNCHANGED <<restore_path, failedMembers>>

\* Lines 278-286: the extraction loop and the return.
RestoreExtract ==
    /\ rpc = "extract"
    /\ LET members == fs[dest_path].entries
       IN  \E bad \in SUBSET (1..Len(members)) :
             /\ Cardinality(bad) <= MaxExtractFailures
             /\ LET r == ExtractAll(restore_path.files, members, 1, bad)
                IN  /\ restore_path' = [restore_path EXCEPT !.files = r.files]
                    /\ rresult' = IF r.raised THEN Returned(FALSE, "extract")
                                  ELSE Returned(TRUE, "none")
             /\ failedMembers' = bad
    /\ rpc' = "done"

RestoreIdle ==
    /\ restore_path = [exists |-> TRUE, files |-> {}]
    /\ rpc = "idle"
    /\ rresult = NoResult
    /\ failedMembers = {}

----------------------------------------------------------------------------
\* The archive names of full_system_backup and specific_directory_backup.

FULL == <<"/">>

\* os.path.basename
basename(p) == SubSeq(p, LastSep(p) + 1, Len(p))

\* datetime.now() read to the second, with the clock counted in ticks.
Second(tick) == tick \div TicksPerSecond

\* Faulty variant: the format "%Y%m%d-%H%M" leaves the seconds out.
strftime_minutes(s) ==
    [ymd |-> s \div 86400, H |-> (s % 86400) \div 3600, M |-> (s % 3600) \div 60, S |-> 0]
\* strftime("%Y%m%d-%H%M%S") of a time `s` seconds after a midnight
strftime(s) ==
    [ymd |-> s \div 86400, H |-> (s % 86400) \div 3600, M |-> (s % 3600) \div 60, S |-> s % 60]

\* backup_name of lines 222-223 and of line 246
backup_name(subject, tick) ==
    [prefix    |-> IF subject = FULL THEN <<"full_system">> ELSE basename(subject),
     timestamp |-> strftime(Second(tick))]

\* A backup is invoked, by hand or by the scheduled job: full_system_backup(),
\* or specific_directory_backup(directory) of an existing directory.
InvokeBackup ==
    /\ Len(backups) < MaxBackups
    /\ \E subject \in {FULL, P_v, P_vl} :
        backups' = Append(backups, [subject |-> subject, at |-> now,
                                    name |-> backup_name(subject, now)])
    /\ UNCHANGED now

\* Time passes.
Tick ==
    /\ now < MaxTicks
    /\ now' = now + 1
    /\ UNCHANGED backups

NamingIdle ==
    /\ now = 0
    /\ backups = <<>>

----------------------------------------------------------------------------
\* Initial states of a build: a tree, at most one file at or over the size
\* cap, at most one unreadable node, and whatever an earlier run left at
\* dest_path and temp_dest_path.

Trees == {t \in SUBSET Cands : \A n \in t : dirname(n) = ROOT \/ dirname(n) \in t}
SizeMaps(t) ==
    {[f \in FileCands |-> IF f = big THEN sz ELSE 1] :
        big \in (t \cap FileCands), sz \in {FILE_SIZE_LIMIT, FILE_SIZE_LIMIT + 1}}
    \cup {[f \in FileCands |-> 1]}

SchedIdle ==
    /\ config_file = ConfigFile("ok", DEFAULT_CONFIG)
    /\ config = DEFAULT_CONFIG
    /\ cfgPc = "idle"
    /\ jobs = <<>>
    /\ stopEvent = FALSE
    /\ schedThread = 0
    /\ runners = <<>>
    /\ nThreads = 0
    /\ callsMade = 0
    /\ lastResult = "none"
    /\ joinTimedOut = FALSE
    /\ firings = 0
    /\ runCount = <<>>

BuildInit ==
    /\ nodes \in Trees
    /\ fsize \in SizeMaps(nodes)
    /\ noaccess \in {s \in SUBSET nodes : Cardinality(s) <= 1}
    /\ fs \in [{dest_path, temp_dest_path} -> {NoFile}]
              \cup {[x \in {dest_path, temp_dest_path} |->
                       IF x = dest_path THEN d ELSE t] :
                     d \in {NoFile, Archive(TRUE, "previous", <<>>)},
                     t \in {NoFile, Archive(FALSE, "previous", <<>>)}}
    /\ destBefore = fs[dest_path]
    /\ source_path \in {ROOT, P_v, P_vl}
    /\ exclude_dirs \in {{}, EXCLUDE_DIRS}
    /\ pc = "start"
    /\ walk = <<>>
    /\ entryFailures = 0
    /\ failedOn = {}
    /\ cause = "none"
    /\ result = NoResult
    /\ totals = [dirs |-> 0, files |-> 0, size |-> 0]
    /\ processed = [dirs |-> 0, files |-> 0]

InitBuild == BuildInit /\ SchedIdle /\ RestoreIdle /\ NamingIdle /\ ExtIdle
NextBuild ==
    \/ OpenTar /\ UNCHANGED <<schedVars, restoreVars, namingVars, extVars>>
    \/ WalkDir /\ UNCHANGED <<schedVars, restoreVars, namingVars, extVars>>
    \/ CloseTar /\ UNCHANGED <<schedVars, restoreVars, namingVars, extVars>>
    \/ Rename /\ UNCHANGED <<schedVars, restoreVars, namingVars, extVars>>
    \/ Finally /\ UNCHANGED <<schedVars, restoreVars, namingVars, extVars>>
    \/ SpecificRejected /\ UNCHANGED <<schedVars, restoreVars, namingVars, extVars>>
SpecBuild == InitBuild /\ [][NextBuild]_vars

\* A build into an empty backup directory, followed by the restore of what it
\* left at dest_path into a restore directory that is empty or missing.
InitRestore ==
    /\ BuildInit
    /\ noaccess = {}
    /\ fs = [x \in {dest_path, temp_dest_path} |-> NoFile]
    /\ SchedIdle
    /\ restore_path \in {[exists |-> e, files |-> {}] : e \in BOOLEAN}
    /\ rpc = "idle"
    /\ rresult = NoResult
    /\ failedMembers = {}
    /\ NamingIdle
    /\ ExtIdle
NextRestore ==
    \/ NextBuild
    \/ RestoreBegin /\ UNCHANGED <<buildVars, schedVars, namingVars, extVars>>
    \/ RestoreOpen /\ UNCHANGED <<buildVars, schedVars, namingVars, extVars>>
    \/ RestoreExtract /\ UNCHANGED <<buildVars, schedVars, namingVars, extVars>>
SpecRestore == InitRestore /\ [][NextRestore]_vars

----------------------------------------------------------------------------
\* Vocabulary of the build claims.

Succeeded == pc = "done" /\ result = Returned(TRUE, "none")
Failed    == pc = "done" /\ result.kind = "returned" /\ ~result.ok
Published == fs[dest_path]
EntrySet  == SeqToSet(Published.entries)
Count(p)  == Cardinality({i \in 1..Len(Published.entries) : Published.entries[i].src = p})

\* p equals e or lies below it, by whole path segments.
IsUnder(p, e) == p = e \/ StartsWith(p, IF e = ROOT THEN e ELSE e \o <<SEP>>)
SegExcluded(p, dirs) == \E e \in normalized(dirs) : IsUnder(p, e)

\* The walk yields directory d with its listing.
RECURSIVE Yielded(_)
Yielded(d) ==
    /\ IsDir(d)
    /\ d \notin noaccess
    /\ \/ d = source_path
       \/ /\ d # ROOT
          /\ ~is_excluded(normpath(d), normalized(exclude_dirs))
          /\ Yielded(dirname(d))

\* C1: the file at dest_path is the file that was there before the build, until
\* the rename of the closed temporary archive replaces it; a failed build
\* leaves it as it was.
C1_DestState ==
    /\ \/ Published = destBefore
       \/ /\ pc \in {"finally", "done"}
          /\ cause = "none"
          /\ Published.kind = "archive" /\ Published.complete /\ Published.origin = "build"
    /\ (pc = "done" /\ result # Returned(TRUE, "none")) => Published = destBefore
C1_DestStep ==
    fs'[dest_path] # fs[dest_path] =>
        /\ pc = "rename"
        /\ fs[temp_dest_path].kind = "archive" /\ fs[temp_dest_path].complete
        /\ fs'[dest_path] = fs[temp_dest_path]
C2_NoExcludedEntry ==
    Succeeded => \A e \in EntrySet : ~SegExcluded(e.src, exclude_dirs)

\* C3: the exclusion test holds of a path exactly when the path equals an
\* exclusion entry or descends from one by whole segments.
C3_ExclusionBySegments ==
    \A p \in nodes :
        is_excluded(normpath(p), normalized(exclude_dirs)) <=> SegExcluded(p, exclude_dirs)

\* C4: after a successful build no archived file is larger than
\* FILE_SIZE_LIMIT, at any depth; a file of exactly FILE_SIZE_LIMIT bytes that
\* the walk reaches is archived.
C4_SizeCap ==
    Succeeded =>
        /\ \A e \in EntrySet : e.src \in FileCands => fsize[e.src] <= FILE_SIZE_LIMIT
        /\ \A f \in nodes \cap FileCands :
            ( /\ fsize[f] = FILE_SIZE_LIMIT
              /\ Yielded(dirname(f))
              /\ ~is_excluded(normpath(f), normalized(exclude_dirs))
              /\ f \notin noaccess /\ f \notin failedOn ) => Count(f) >= 1

\* C5: a successful build over an unchanging tree archives every reached,
\* readable, non-excluded file within the cap exactly once under its path
\* relative to the root, and every surviving directory exactly once.
C5_ExactlyOnce ==
    (Succeeded /\ entryFailures = 0 /\ noaccess = {}) =>
        /\ \A e \in EntrySet : Count(e.src) = 1 /\ e.arcname = relpath(e.src, source_path)
        /\ \A f \in nodes \cap FileCands :
            ( /\ Yielded(dirname(f))
              /\ ~is_excluded(normpath(f), normalized(exclude_dirs))
              /\ fsize[f] <= FILE_SIZE_LIMIT ) => Count(f) = 1
        /\ \A d \in nodes \cap DirCands :
            (d # source_path /\ Yielded(d)) => Count(d) = 1

\* C9: a failure on one directory or file entry never aborts the build: only
\* a failure to open, close or rename the archive makes it fail, and the
\* entries after the failing one are still archived.
C9_EntryFailureTolerated ==
    /\ cause \in {"none", "open", "close", "rename"}
    /\ (pc = "done" /\ cause = "none") =>
        /\ Succeeded
        /\ Published.kind = "archive" /\ Published.complete /\ Published.origin = "build"
        /\ \A f \in nodes \cap FileCands :
            ( /\ Yielded(dirname(f))
              /\ ~is_excluded(normpath(f), normalized(exclude_dirs))
              /\ fsize[f] <= FILE_SIZE_LIMIT
              /\ f \notin noaccess /\ f \notin failedOn ) => Count(f) >= 1
C9_Witness ==
    /\ Succeeded
    /\ failedOn # {}
    /\ \E f \in nodes \cap FileCands : f \notin failedOn /\ Count(f) >= 1

\* C10: a build that returns failure leaves no temporary file, and the
\* failure it returns is the exception that ended the build.
C10_FailureLeavesNoTemp ==
    Failed =>
        /\ ~Exists(fs[temp_dest_path])
        /\ result.cause = cause
        /\ cause \in {"open", "close", "rename"}
C10_Witness ==
    /\ Failed /\ cause = "close"
    /\ ~Exists(fs[temp_dest_path])

\* C11: a build whose root does not exist returns failure and leaves the
\* destination as it was: no archive is published for a missing root.
RootMissing == ~IsDir(source_path)
C11_MissingRootFails ==
    RootMissing =>
        /\ Published = destBefore
        /\ ~Succeeded

\* The two callers of the build: full_system_backup passes "/" with
\* EXCLUDE_DIRS, specific_directory_backup passes a directory and no
\* exclusions.
IsFullCall     == source_path = ROOT /\ exclude_dirs = EXCLUDE_DIRS
IsSpecificCall == exclude_dirs = {}

\* C19: in a full and in a specific backup alike the scan and the archive walk
\* exclude the same paths, so the directories and files processed never
\* exceed the totals the scan reported.
C19_ProcessedWithinTotals ==
    (IsFullCall \/ IsSpecificCall) =>
        /\ processed.dirs <= totals.dirs
        /\ processed.files <= totals.files

\* Everything below the root lies under an entry of the exclusion list; an
\* empty tree is the case with nothing below the root.
FullyExcluded ==
    \A n \in nodes :
        (n # source_path /\ IsUnder(n, source_path)) => SegExcluded(n, exclude_dirs)

\* C20: for a root whose whole content is excluded, or that is itself under
\* an exclusion entry, or that is empty, the scan reports (0, 0, 0) and a
\* build that meets no fatal error succeeds and publishes a complete archive
\* with no entries.
C20_ExcludedTreeGivesEmptyArchive ==
    FullyExcluded =>
        /\ pc # "start" => totals = [dirs |-> 0, files |-> 0, size |-> 0]
        /\ (pc = "done" /\ cause = "none") =>
              (Succeeded /\ Published = Archive(TRUE, "build", <<>>))
C20_Witness ==
    /\ Succeeded
    /\ FullyExcluded
    /\ source_path = P_vl /\ P_vlf \in nodes /\ P_vl \in exclude_dirs
    /\ Published.entries = <<>>

----------------------------------------------------------------------------
\* The scheduler on its own: configure calls one after the other, the runner
\* threads, and the clock.

BuildIdle ==
    /\ nodes = {}
    /\ fsize = [f \in FileCands |-> 1]
    /\ noaccess = {}
    /\ fs = [x \in {dest_path, temp_dest_path} |-> NoFile]
    /\ destBefore = NoFile
    /\ source_path = ROOT
    /\ exclude_dirs = {}
    /\ pc = "start"
    /\ walk = <<>>
    /\ entryFailures = 0
    /\ failedOn = {}
    /\ cause = "none"
    /\ result = NoResult
    /\ totals = [dirs |-> 0, files |-> 0, size |-> 0]
    /\ processed = [dirs |-> 0, files |-> 0]

InitSched == SchedIdle /\ BuildIdle /\ RestoreIdle /\ NamingIdle /\ ExtIdle
NextSched ==
    \/ save_config /\ UNCHANGED <<buildVars, restoreVars, namingVars, extVars>>
    \/ ConfigFileDamaged /\ UNCHANGED <<buildVars, restoreVars, namingVars, extVars>>
    \/ CfgBegin /\ UNCHANGED <<buildVars, restoreVars, namingVars, extVars>>
    \/ CfgJoin /\ UNCHANGED <<buildVars, restoreVars, namingVars, extVars>>
    \/ CfgClearEvent /\ UNCHANGED <<buildVars, restoreVars, namingVars, extVars>>
    \/ CfgApply /\ UNCHANGED <<buildVars, restoreVars, namingVars, extVars>>
    \/ CfgStartThread /\ UNCHANGED <<buildVars, restoreVars, namingVars, extVars>>
    \/ Fire /\ UNCHANGED <<buildVars, restoreVars, namingVars, extVars>>
    \/ \E r \in 1..Len(runners) : RunnerCheck(r) /\ UNCHANGED <<buildVars, restoreVars, namingVars, extVars>>
    \/ \E r \in 1..Len(runners) : RunnerRunPending(r) /\ UNCHANGED <<buildVars, restoreVars, namingVars, extVars>>
    \/ \E r \in 1..Len(runners) : RunnerJobStart(r) /\ UNCHANGED <<buildVars, restoreVars, namingVars, extVars>>
    \/ \E r \in 1..Len(runners) : RunnerJobDone(r) /\ UNCHANGED <<buildVars, restoreVars, namingVars, extVars>>
    \/ \E r \in 1..Len(runners) : RunnerSleep(r) /\ UNCHANGED <<buildVars, restoreVars, namingVars, extVars>>
    \/ \E r \in 1..Len(runners) : RunnerExit(r) /\ UNCHANGED <<buildVars, restoreVars, namingVars, extVars>>
SpecSched == InitSched /\ [][NextSched]_vars

\* The same under the scheduling of threads: the thread inside
\* auto_backup_scheduler goes on to its next statement, and a runner goes on
\* with its loop.  A backup job has no bound on its duration, so nothing is
\* assumed about when RunnerJobDone happens.
FairSched ==
    /\ WF_vars(CfgJoin /\ UNCHANGED <<buildVars, restoreVars, namingVars, extVars>>)
    /\ WF_vars(CfgClearEvent /\ UNCHANGED <<buildVars, restoreVars, namingVars, extVars>>)
    /\ WF_vars(CfgApply /\ UNCHANGED <<buildVars, restoreVars, namingVars, extVars>>)
    /\ WF_vars(CfgStartThread /\ UNCHANGED <<buildVars, restoreVars, namingVars, extVars>>)
    /\ WF_vars(\E r \in 1..Len(runners) : RunnerCheck(r) /\ UNCHANGED <<buildVars, restoreVars, namingVars, extVars>>)
    /\ WF_vars(\E r \in 1..Len(runners) : RunnerRunPending(r) /\ UNCHANGED <<buildVars, restoreVars, namingVars, extVars>>)
    /\ WF_vars(\E r \in 1..Len(runners) : RunnerJobStart(r) /\ UNCHANGED <<buildVars, restoreVars, namingVars, extVars>>)
    /\ WF_vars(\E r \in 1..Len(runners) : RunnerSleep(r) /\ UNCHANGED <<buildVars, restoreVars, namingVars, extVars>>)
    /\ WF_vars(\E r \in 1..Len(runners) : RunnerExit(r) /\ UNCHANGED <<buildVars, restoreVars, namingVars, extVars>>)
SpecSchedFair == SpecSched /\ FairSched

\* Backup invocations over time, each computing the name of its archive.
InitNaming == NamingIdle /\ BuildIdle /\ SchedIdle /\ RestoreIdle /\ ExtIdle
NextNaming ==
    \/ InvokeBackup /\ UNCHANGED <<buildVars, schedVars, restoreVars, extVars>>
    \/ Tick /\ UNCHANGED <<buildVars, schedVars, restoreVars, extVars>>
SpecNaming == InitNaming /\ [][NextNaming]_vars

----------------------------------------------------------------------------
\* The network functions, one request/response exchange per call, and the
\* listing of BACKUP_DIR, beside a build of an empty tree.

MaxNetCalls == 2

NetFunctions == {"upload", "download", "list", "delete"}

\* What requests.post gives back: an exception (ConnectionError, or another
\* one such as a read timeout), or a response with a status and a body that
\* is a JSON object with the key the caller reads ("json"), a JSON object
\* without it ("json_nokey") or no JSON at all ("not_json").
Responses ==
    {[kind |-> k, status |-> 0, body |-> "none"] : k \in {"ConnectionError", "Exception"}}
    \cup {[kind |-> "response", status |-> st, body |-> b] :
            st \in {200, 404}, b \in {"json", "json_nokey", "not_json"}}

NetReturned(ok, message) == [ok |-> ok, message |-> message]

\* Lines 301-303, 335-340 and 439-441: the argument checks made before any
\* request.
ArgumentError(fn) ==
    CASE fn = "upload" -> NetReturned(FALSE, "Invalid file path for upload.")
      [] fn = "download" -> NetReturned(FALSE, "Download destination is not a valid directory.")
      [] fn = "delete" -> NetReturned(FALSE, "No filename provided.")

\* response.json() raises on a body that is not JSON.
JsonRaises(r) == r.body = "not_json"

\* upload_backup_headless from the return of requests.post on
upload_backup_headless(r) ==
    IF r.kind = "ConnectionError" THEN NetReturned(FALSE, "Server connection failed: ")
    ELSE IF r.kind = "Exception" THEN NetReturned(FALSE, "Upload failed: ")
    ELSE IF r.status = 200
         THEN IF JsonRaises(r) THEN NetReturned(FALSE, "Upload failed: ")
              ELSE NetReturned(TRUE, IF r.body = "json" THEN "message" ELSE "Success")
    ELSE NetReturned(FALSE, "Failed to upload backup: ")

\* download_backup_headless from the return of requests.post on, for every
\* outcome but status 200, whose file is written by NetOpenFile and
\* NetWriteFile.
download_backup_headless(r) ==
    IF r.kind = "ConnectionError" THEN NetReturned(FALSE, "Server connection failed: ")
    ELSE IF r.kind = "Exception" THEN NetReturned(FALSE, "Download failed: ")
    ELSE IF JsonRaises(r) THEN NetReturned(FALSE, "Download failed: ")
    ELSE NetReturned(FALSE, "Failed to download backup: ")

\* list_server_backups_headless; ok stands for a list returned with no error.
list_server_backups_headless(r) ==
    IF r.kind = "ConnectionError"
    THEN NetReturned(FALSE, "Server connection failed: . Is the server running?")
    ELSE IF r.kind = "Exception" THEN NetReturned(FALSE, "Failed to list server backups: ")
    ELSE IF JsonRaises(r) THEN NetReturned(FALSE, "Failed to list server backups: ")
    ELSE IF r.status = 200 THEN NetReturned(TRUE, "None")
    ELSE NetReturned(FALSE, IF r.body = "json" THEN "error"
                            ELSE "Failed to list server backups.")

\* delete_server_backup_headless: at status 200 the body is not read.
delete_server_backup_headless(r) ==
    IF r.kind = "ConnectionError" THEN NetReturned(FALSE, "Server connection failed: ")
    ELSE IF r.kind = "Exception" THEN NetReturned(FALSE, "Failed to delete server backup: ")
    ELSE IF r.status = 200 THEN NetReturned(TRUE, "Server backup deleted successfully.")
    ELSE IF JsonRaises(r) THEN NetReturned(FALSE, "Failed to delete server backup: ")
    ELSE NetReturned(FALSE, "Failed to delete server backup: ")

\* A network function is called; bad arguments end the call before any
\* request (list_server_backups_headless checks none).
NetBegin ==
    /\ netPc \in {"idle", "returned"}
    /\ netCalls < MaxNetCalls
    /\ netCalls' = netCalls + 1
    /\ \E fn \in NetFunctions, args_ok \in BOOLEAN :
        /\ fn = "list" => args_ok
        /\ netCall' = [fn |-> fn, args_ok |-> args_ok]
        /\ IF args_ok
           THEN netPc' = "request" /\ netResult' = NetNoResult
           ELSE netPc' = "returned" /\ netResult' = ArgumentError(fn)
    /\ requests' = 0
    /\ response' = NoResponse
    /\ UNCHANGED <<backup_dir, listed>>

\* requests.post: the one request of the call, and the server's answer.
NetRequest ==
    /\ netPc = "request"
    /\ requests' = requests + 1
    /\ response' \in Responses
    /\ netPc' = "response"
    /\ UNCHANGED <<netCall, netResult, netCalls, backup_dir, listed>>

\* The rest of the call, but for a download answered with status 200.
NetReturn ==
    /\ netPc = "response"
    /\ ~(netCall.fn = "download" /\ response.kind = "response" /\ response.status = 200)
    /\ netResult' = CASE netCall.fn = "upload" -> upload_backup_headless(response)
                      [] netCall.fn = "download" -> download_backup_headless(response)
                      [] netCall.fn = "list" -> list_server_backups_headless(response)
                      [] netCall.fn = "delete" -> delete_server_backup_headless(response)
    /\ netPc' = "returned"
    /\ UNCHANGED <<netCall, requests, response, netCalls, backup_dir, listed>>

\* Lines 345-346 of a download answered with status 200: open(path, "wb")
\* creates or truncates the file under its final name, or raises.
NetOpenFile ==
    /\ netPc = "response"
    /\ netCall.fn = "download" /\ response.kind = "response" /\ response.status = 200
    /\ \E opened \in BOOLEAN :
        IF opened
        THEN /\ backup_dir' = [backup_dir EXCEPT ![N_server] = "partial"]
             /\ netPc' = "write"
             /\ UNCHANGED netResult
        ELSE /\ netResult' = NetReturned(FALSE, "Download failed: ")
             /\ netPc' = "returned"
             /\ UNCHANGED backup_dir
    /\ UNCHANGED <<netCall, requests, response, netCalls, listed>>

\* Line 347: f.write(response.content) and the close of the file; a write
\* that raises leaves what was written.
NetWriteFile ==
    /\ netPc = "write"
    /\ \E written \in BOOLEAN :
        IF written
        THEN /\ backup_dir' = [backup_dir EXCEPT ![N_server] = "complete"]
             /\ netResult' = NetReturned(TRUE, "Backup downloaded to ")
        ELSE /\ netResult' = NetReturned(FALSE, "Download failed: ")
             /\ UNCHANGED backup_dir
    /\ netPc' = "returned"
    /\ UNCHANGED <<netCall, requests, response, netCalls, listed>>

\* glob(os.path.join(BACKUP_DIR, "*.tar.gz")): the names that end in
\* ".tar.gz".
glob(files) == {n \in files : n[Len(n)] = ".tar.gz"}

\* The files of BACKUP_DIR: what a build has at dest_path and at
\* temp_dest_path, and what a download has written.
InBackupDir ==
    {n \in {N_local, N_temp} \cup Downloadable :
        IF n = N_local THEN Exists(fs[dest_path])
        ELSE IF n = N_temp THEN Exists(fs[temp_dest_path])
        ELSE backup_dir[n] # "absent"}
Complete(n) ==
    IF n = N_local THEN fs[dest_path].complete
    ELSE IF n = N_temp THEN fs[temp_dest_path].complete
    ELSE backup_dir[n] = "complete"

\* list_local_backups_headless(): the names the glob matches, each with what
\* the file held when it was listed.
list_local_backups_headless ==
    {[name |-> n, complete |-> Complete(n)] : n \in glob(InBackupDir)}

\* The GUI refreshes its list, at any moment of a build or of a download.
ListLocal ==
    /\ listed' = list_local_backups_headless
    /\ listed' # listed
    /\ UNCHANGED <<netCall, netPc, requests, response, netResult, netCalls, backup_dir>>

InitNet == NetIdle /\ BuildIdle /\ SchedIdle /\ RestoreIdle /\ NamingIdle /\ RaceIdle /\ TwinIdle /\ GuiIdle
NextNet ==
    \/ NetBegin /\ UNCHANGED <<buildVars, schedVars, restoreVars, namingVars, raceVars, twinVars, guiVars>>
    \/ NetRequest /\ UNCHANGED <<buildVars, schedVars, restoreVars, namingVars, raceVars, twinVars, guiVars>>
    \/ NetReturn /\ UNCHANGED <<buildVars, schedVars, restoreVars, namingVars, raceVars, twinVars, guiVars>>
    \/ NetOpenFile /\ UNCHANGED <<buildVars, schedVars, restoreVars, namingVars, raceVars, twinVars, guiVars>>
    \/ NetWriteFile /\ UNCHANGED <<buildVars, schedVars, restoreVars, namingVars, raceVars, twinVars, guiVars>>
    \/ ListLocal /\ UNCHANGED <<buildVars, schedVars, restoreVars, namingVars, raceVars, twinVars, guiVars>>
    \/ OpenTar /\ UNCHANGED <<schedVars, restoreVars, namingVars, extVars>>
    \/ WalkDir /\ UNCHANGED <<schedVars, restoreVars, namingVars, extVars>>
    \/ CloseTar /\ UNCHANGED <<schedVars, restoreVars, namingVars, extVars>>
    \/ Rename /\ UNCHANGED <<schedVars, restoreVars, namingVars, extVars>>
    \/ Finally /\ UNCHANGED <<schedVars, restoreVars, namingVars, extVars>>
SpecNet == InitNet /\ [][NextNet]_vars

----------------------------------------------------------------------------
\* auto_backup_scheduler called by two threads at once.  The function takes
\* no lock: between any two of its statements the other thread may run, and
\* both work on _scheduler_thread, _stop_scheduler_event and schedule's job
\* table.  Each thread goes through the statements of lines 483-562 in order.

Callers == {1, 2}

Goto(c, where) == callers' = [callers EXCEPT ![c].pc = where]
Return(c, value) == callers' = [callers EXCEPT ![c].pc = "returned", ![c].result = value]

\* Lines 483-485: a live runner is told to stop.
CallBegin(c) ==
    /\ callers[c].pc = "idle"
    /\ IF Alive(schedThread)
       THEN stopEvent' = TRUE /\ Goto(c, "join")
       ELSE UNCHANGED stopEvent /\ Goto(c, "clear")
    /\ UNCHANGED <<config_file, config, cfgPc, jobs, schedThread, runners, nThreads,
                   callsMade, lastResult, joinTimedOut, firings, runCount>>

\* Lines 486-490: join(timeout=5) returns when the runner has exited, or after
\* five seconds with the runner alive: the other thread has cleared the event
\* and the runner polls on.
CallJoin(c) ==
    /\ callers[c].pc = "join"
    /\ ~Alive(schedThread) \/ ~stopEvent
    /\ Goto(c, "clear")
    /\ UNCHANGED schedVars

\* Line 493: _stop_scheduler_event.clear()
CallClearEvent(c) ==
    /\ callers[c].pc = "clear"
    /\ stopEvent' = FALSE
    /\ Goto(c, "load")
    /\ UNCHANGED <<config_file, config, cfgPc, jobs, schedThread, runners, nThreads,
                   callsMade, lastResult, joinTimedOut, firings, runCount>>

\* Line 495: config = load_config(log_callback), a local of the call.
CallLoad(c) ==
    /\ callers[c].pc = "load"
    /\ callers' = [callers EXCEPT ![c].pc = "clear_jobs",
                                  ![c].config = load_config(config_file, TRUE).config]
    /\ UNCHANGED schedVars

\* Line 498, schedule.clear(), then the checks of lines 500-523 on the local
\* record.
CallClearJobs(c) ==
    /\ callers[c].pc = "clear_jobs"
    /\ jobs' = schedule_clear(jobs)
    /\ IF Validate(callers[c].config) \in {"disabled", "invalid"}
       THEN Return(c, "False")
       ELSE Goto(c, "register")
    /\ UNCHANGED <<config_file, config, cfgPc, stopEvent, schedThread, runners, nThreads,
                   callsMade, lastResult, joinTimedOut, firings, runCount>>

\* Lines 538-552: schedule.every()...do(scheduled_backup_task)
CallRegister(c) ==
    /\ callers[c].pc = "register"
    /\ jobs' = Append(jobs, Job(c, callers[c].config))
    /\ Goto(c, "test")
    /\ UNCHANGED <<config_file, config, cfgPc, stopEvent, schedThread, runners, nThreads,
                   callsMade, lastResult, joinTimedOut, firings, runCount>>

\* Line 555: if not (_scheduler_thread and _scheduler_thread.is_alive())
CallTestThread(c) ==
    /\ callers[c].pc = "test"
    /\ IF Alive(schedThread) THEN Return(c, "True") ELSE Goto(c, "start")
    /\ UNCHANGED schedVars

\* Lines 556-559: the thread is created, stored in _scheduler_thread and
\* started.
CallStartThread(c) ==
    /\ callers[c].pc = "start"
    /\ runners' = Append(runners, NewRunner)
    /\ schedThread' = Len(runners) + 1
    /\ nThreads' = nThreads + 1
    /\ Return(c, "True")
    /\ UNCHANGED <<config_file, config, cfgPc, jobs, stopEvent, callsMade, lastResult,
                   joinTimedOut, firings, runCount>>

\* The two calls are made when the configuration file holds an enabled or a
\* disabled record and no runner exists yet.
RaceConfigs ==
    {DEFAULT_CONFIG, BaseConfig, [BaseConfig EXCEPT !.backup_type = "full", !.frequency = "weekly"]}
InitRace ==
    /\ callers = [c \in Callers |-> [pc |-> "idle", config |-> DEFAULT_CONFIG, result |-> "none"]]
    /\ BuildIdle /\ RestoreIdle /\ NamingIdle /\ NetIdle /\ TwinIdle /\ GuiIdle
    /\ config_file \in {ConfigFile("ok", c) : c \in RaceConfigs}
    /\ config = DEFAULT_CONFIG
    /\ cfgPc = "idle"
    /\ jobs = <<>>
    /\ stopEvent = FALSE
    /\ schedThread = 0
    /\ runners = <<>>
    /\ nThreads = 0
    /\ callsMade = 0
    /\ lastResult = "none"
    /\ joinTimedOut = FALSE
    /\ firings = 0
    /\ runCount = <<>>
NextRace ==
    \/ \E c \in Callers : CallBegin(c) /\ UNCHANGED <<buildVars, restoreVars, namingVars, netVars, twinVars, guiVars>>
    \/ \E c \in Callers : CallJoin(c) /\ UNCHANGED <<buildVars, restoreVars, namingVars, netVars, twinVars, guiVars>>
    \/ \E c \in Callers : CallClearEvent(c) /\ UNCHANGED <<buildVars, restoreVars, namingVars, netVars, twinVars, guiVars>>
    \/ \E c \in Callers : CallLoad(c) /\ UNCHANGED <<buildVars, restoreVars, namingVars, netVars, twinVars, guiVars>>
    \/ \E c \in Callers : CallClearJobs(c) /\ UNCHANGED <<buildVars, restoreVars, namingVars, netVars, twinVars, guiVars>>
    \/ \E c \in Callers : CallRegister(c) /\ UNCHANGED <<buildVars, restoreVars, namingVars, netVars, twinVars, guiVars>>
    \/ \E c \in Callers : CallTestThread(c) /\ UNCHANGED <<buildVars, restoreVars, namingVars, netVars, twinVars, guiVars>>
    \/ \E c \in Callers : CallStartThread(c) /\ UNCHANGED <<buildVars, restoreVars, namingVars, netVars, twinVars, guiVars>>
    \/ \E r \in 1..Len(runners) : RunnerCheck(r) /\ UNCHANGED <<buildVars, restoreVars, namingVars, extVars>>
    \/ \E r \in 1..Len(runners) : RunnerRunPending(r) /\ UNCHANGED <<buildVars, restoreVars, namingVars, extVars>>
    \/ \E r \in 1..Len(runners) : RunnerSleep(r) /\ UNCHANGED <<buildVars, restoreVars, namingVars, extVars>>
    \/ \E r \in 1..Len(runners) : RunnerExit(r) /\ UNCHANGED <<buildVars, restoreVars, namingVars, extVars>>
SpecRace == InitRace /\ [][NextRace]_vars

----------------------------------------------------------------------------
\* Two calls of create_tarball_with_progress with the same dest_path, and so
\* the same temp_dest_path, running on two threads: a scheduled and a manual
\* backup of the same subject begun within one second.  A name denotes a
\* file; a build writes through the handle it opened, whatever becomes of the
\* name.

Builders == {1, 2}
MaxWrites == 2


\* Line 149: tarfile.open(temp_dest_path, "w:gz") creates the file, or
\* truncates the file the name denotes already.
TwinOpen(b) ==
    /\ builders[b].pc = "start"
    /\ IF names.tmp = 0
       THEN /\ inodes' = Append(inodes, [open |-> {b}, closed |-> FALSE, writes |-> 0])
            /\ names' = [names EXCEPT !.tmp = Len(inodes) + 1]
            /\ builders' = [builders EXCEPT ![b].pc = "walk", ![b].handle = Len(inodes) + 1]
       ELSE /\ inodes' = [inodes EXCEPT ![names.tmp] =
                              [open |-> @.open \cup {b}, closed |-> FALSE, writes |-> 0]]
            /\ builders' = [builders EXCEPT ![b].pc = "walk", ![b].handle = names.tmp]
            /\ UNCHANGED names

\* Lines 150-203: an entry is written to the open archive.
TwinWrite(b) ==
    /\ builders[b].pc = "walk"
    /\ inodes[builders[b].handle].writes < MaxWrites
    /\ inodes' = [inodes EXCEPT ![builders[b].handle].writes = @ + 1]
    /\ UNCHANGED <<builders, names>>

\* The end of the with block: the archive is closed, which may fail.
TwinClose(b) ==
    /\ builders[b].pc = "walk"
    /\ \E ok \in BOOLEAN :
        /\ inodes' = [inodes EXCEPT ![builders[b].handle] =
                          [@ EXCEPT !.open = @ \ {b}, !.closed = ok]]
        /\ builders' = [builders EXCEPT ![b].pc = IF ok THEN "rename" ELSE "finally",
                                        ![b].cause = IF ok THEN "none" ELSE "close"]
    /\ UNCHANGED names

\* Line 205: os.rename(temp_dest_path, dest_path); FileNotFoundError when the
\* temporary name is gone.
TwinRename(b) ==
    /\ builders[b].pc = "rename"
    /\ IF names.tmp = 0
       THEN /\ builders' = [builders EXCEPT ![b].pc = "finally", ![b].cause = "rename"]
            /\ UNCHANGED names
       ELSE /\ names' = [dest |-> names.tmp, tmp |-> 0]
            /\ builders' = [builders EXCEPT ![b].pc = "finally"]
    /\ UNCHANGED inodes

\* Lines 213-218: the finally clause removes temp_dest_path if it exists.
TwinFinally(b) ==
    /\ builders[b].pc = "finally"
    /\ names' = [names EXCEPT !.tmp = 0]
    /\ builders' = [builders EXCEPT ![b].pc = "done",
                                    ![b].result = Returned(builders[b].cause = "none",
                                                           builders[b].cause)]
    /\ UNCHANGED inodes

InitTwin ==
    /\ builders = [b \in Builders |->
                      [pc |-> "start", handle |-> 0, cause |-> "none", result |-> NoResult]]
    /\ inodes = <<>>
    /\ names = [dest |-> 0, tmp |-> 0]
    /\ BuildIdle /\ SchedIdle /\ RestoreIdle /\ NamingIdle /\ NetIdle /\ RaceIdle /\ GuiIdle
NextTwin ==
    \/ \E b \in Builders : TwinOpen(b) /\ UNCHANGED <<buildVars, schedVars, restoreVars, namingVars, netVars, raceVars, guiVars>>
    \/ \E b \in Builders : TwinWrite(b) /\ UNCHANGED <<buildVars, schedVars, restoreVars, namingVars, netVars, raceVars, guiVars>>
    \/ \E b \in Builders : TwinClose(b) /\ UNCHANGED <<buildVars, schedVars, restoreVars, namingVars, netVars, raceVars, guiVars>>
    \/ \E b \in Builders : TwinRename(b) /\ UNCHANGED <<buildVars, schedVars, restoreVars, namingVars, netVars, raceVars, guiVars>>
    \/ \E b \in Builders : TwinFinally(b) /\ UNCHANGED <<buildVars, schedVars, restoreVars, namingVars, netVars, raceVars, guiVars>>
SpecTwin == InitTwin /\ [][NextTwin]_vars

----------------------------------------------------------------------------
\* The GUI of app.py: the handlers of the restore, upload and download
\* buttons, and save_auto_backup_config.

MaxGuiCalls == 2

\* The names the module app binds before its handlers run: the imports of
\* lines 1-6, the names listed in "from Client.Client import (...)" of lines
\* 12-26, and the globals of lines 29-31.  A from-import binds the names it
\* lists and nothing else.
ModuleNames ==
    {"dpg", "sys", "os", "threading", "json", "time",
     "authenticate_user_headless", "full_system_backup", "specific_directory_backup",
     "restore_backup", "list_local_backups_headless", "delete_local_backup_headless",
     "upload_backup_headless", "download_backup_headless", "list_server_backups_headless",
     "delete_server_backup_headless", "load_config", "save_config", "auto_backup_scheduler",
     "logged_in_user", "home_directory", "auto_backup_scheduler_thread"}
\* Whether looking the global `name` up succeeds; it raises NameError otherwise.
Bound(name) == name \in ModuleNames

GuiOps == {"restore", "upload", "download"}
EngineOperation(op) ==
    CASE op = "restore" -> "restore_backup"
      [] op = "upload" -> "upload_backup_headless"
      [] op = "download" -> "download_backup_headless"

\* What the listbox of the handler gives: nothing, its placeholder text, or
\* an entry.
Selections == {"", "placeholder", "entry"}

\* run_restore_backup, upload_selected_backup, download_selected_backup: the
\* checks, then the expression Client.BACKUP_DIR, then the thread.
Handle(op, user, selection, restore_to) ==
    IF ~user THEN [outcome |-> "Please log in first.", started |-> <<>>]
    ELSE IF selection \in {"", "placeholder"}
    THEN [outcome |-> "warning: selection", started |-> <<>>]
    ELSE IF op = "restore" /\ restore_to = ""
    THEN [outcome |-> "warning: restore path", started |-> <<>>]
    ELSE IF ~Bound("Client")
    THEN [outcome |-> "NameError", started |-> <<>>]
    ELSE [outcome |-> "started",
          started |-> <<[target |-> EngineOperation(op), dir |-> "BACKUP_DIR",
                         file |-> selection]>>]

\* One of the three buttons is pressed.
GuiHandler ==
    /\ guiCalls < MaxGuiCalls
    /\ guiCalls' = guiCalls + 1
    /\ \E op \in GuiOps, selection \in Selections, restore_to \in {"", "dir"} :
        LET h == Handle(op, logged_in_user, selection, restore_to)
        IN  /\ handled' = [op |-> op, logged_in |-> logged_in_user,
                           valid |-> (selection = "entry" /\ (op = "restore" => restore_to # "")),
                           outcome |-> h.outcome]
            /\ workers' = workers \o h.started
    /\ UNCHANGED <<logged_in_user, default_config>>

\* The values of the five widgets save_auto_backup_config reads.
WidgetValues ==
    {DEFAULT_CONFIG, BaseConfig, [BaseConfig EXCEPT !.backup_type = "full", !.frequency = "weekly"]}

\* save_auto_backup_config (app.py, lines 297-311): config = load_config(),
\* the five keys of config are assigned, save_config(config), and on success
\* start_auto_backup_scheduler() enters auto_backup_scheduler.  When
\* load_config could not read the file, config is the object DEFAULT_CONFIG
\* and the assignments change it.
GuiSaveConfig ==
    /\ cfgPc = "idle"
    /\ callsMade < MaxCalls
    /\ \E widgets \in WidgetValues, saved \in BOOLEAN, written \in BOOLEAN :
        LET loaded == load_config(config_file, saved)
        IN  /\ default_config' = IF loaded.file.state = "ok" THEN default_config ELSE widgets
            /\ IF written
               THEN /\ config_file' = ConfigFile("ok", widgets)
                    /\ CallEntered
               ELSE /\ config_file' = loaded.file
                    /\ UNCHANGED <<cfgPc, stopEvent, callsMade, lastResult, joinTimedOut>>
    /\ UNCHANGED <<config, jobs, schedThread, runners, nThreads, firings, runCount>>
    /\ UNCHANGED <<logged_in_user, handled, workers, guiCalls>>

\* The GUI before or after a login, with the scheduler as the login left it
\* for the default configuration.
InitGui ==
    /\ logged_in_user \in BOOLEAN
    /\ default_config = DEFAULT_CONFIG
    /\ handled = NotHandled
    /\ workers = <<>>
    /\ guiCalls = 0
    /\ SchedIdle /\ BuildIdle /\ RestoreIdle /\ NamingIdle /\ NetIdle /\ RaceIdle /\ TwinIdle
NextGui ==
    \/ GuiHandler /\ UNCHANGED <<buildVars, schedVars, restoreVars, namingVars, netVars, raceVars, twinVars>>
    \/ GuiSaveConfig /\ UNCHANGED <<buildVars, restoreVars, namingVars, netVars, raceVars, twinVars>>
    \/ ConfigFileDamaged /\ UNCHANGED <<buildVars, restoreVars, namingVars, extVars>>
    \/ CfgJoin /\ UNCHANGED <<buildVars, restoreVars, namingVars, extVars>>
    \/ CfgClearEvent /\ UNCHANGED <<buildVars, restoreVars, namingVars, extVars>>
    \/ CfgApply /\ UNCHANGED <<buildVars, restoreVars, namingVars, extVars>>
    \/ CfgStartThread /\ UNCHANGED <<buildVars, restoreVars, namingVars, extVars>>
    \/ \E r \in 1..Len(runners) : RunnerCheck(r) /\ UNCHANGED <<buildVars, restoreVars, namingVars, extVars>>
    \/ \E r \in 1..Len(runners) : RunnerRunPending(r) /\ UNCHANGED <<buildVars, restoreVars, namingVars, extVars>>
    \/ \E r \in 1..Len(runners) : RunnerSleep(r) /\ UNCHANGED <<buildVars, restoreVars, namingVars, extVars>>
    \/ \E r \in 1..Len(runners) : RunnerExit(r) /\ UNCHANGED <<buildVars, restoreVars, namingVars, extVars>>
SpecGui == InitGui /\ [][NextGui]_vars

----------------------------------------------------------------------------
\* Vocabulary of the scheduler claims.

ReturnedFrom(v) == cfgPc = "idle" /\ lastResult = v
Matches(j, c) ==
    /\ j.frequency = c.frequency
    /\ j.time = c.time
    /\ j.backup_type = c.backup_type

\* C6: whatever the configurations, and whether the previous runner was idle
\* or inside a job when a call was made, at most one runner thread is alive,
\* at the return of every call and at every other moment.
C6_AtMostOneRunner == Cardinality(AliveRunners) <= 1
C6_Witness ==
    /\ ReturnedFrom("True")
    /\ callsMade >= 2
    /\ joinTimedOut
    /\ Cardinality(AliveRunners) = 1

\* C7: whenever auto_backup_scheduler returns False the scheduler is stopped:
\* no job is registered and no runner thread is alive.
C7_FalseMeansStopped ==
    ReturnedFrom("False") => (jobs = <<>> /\ AliveRunners = {})

\* C8: the job table never holds more than one job; after a call that
\* returned True it holds exactly the job of the configuration that call
\* loaded, after one that returned False it is empty; no firing time runs the
\* backup more than once.
C8_OneTrigger ==
    /\ Len(jobs) <= 1
    /\ ReturnedFrom("True") =>
        (Len(jobs) = 1 /\ jobs[1].id = callsMade /\ Matches(jobs[1], config))
    /\ ReturnedFrom("False") => jobs = <<>>
    /\ \A f \in 1..Len(runCount) : runCount[f] <= 1

\* C18: every record load_config returns holds all five keys, whether the file
\* was missing, unreadable, malformed, or JSON written by save_config.
C18_LoadedRecordComplete == config.keys = ConfigKeys

\* C13: no call of a public operation ends with an exception escaping to its
\* caller, whatever record the configuration file holds.
C13_NoExceptionEscapes == lastResult # "raised"

\* C15: a scheduled job that fails, by a failure result or by an exception,
\* does not end the runner thread: a runner inside a job is alive after it.
C15_FailedJobKeepsRunner ==
    [][\A r \in 1..Len(runners) :
          runners[r].pc = "job" => runners'[r].pc # "dead"]_vars

\* C16: a call of auto_backup_scheduler always returns: having told a live
\* runner to stop it waits for the runner to exit or for the timeout of the
\* join, whichever comes first, and then goes on, also when the runner stays
\* inside a backup job for ever.
C16_ConfigureReturns == (cfgPc # "idle") ~> (cfgPc = "idle")
C16_Witness ==
    /\ cfgPc = "idle"
    /\ lastResult \in {"True", "False"}
    /\ joinTimedOut
    /\ Alive(1) /\ runners[1].pc = "job"

----------------------------------------------------------------------------
\* Vocabulary of the restore claims.

Restored == rpc = "done" /\ rresult = Returned(TRUE, "none")
RestoredFiles == {f \in restore_path.files : f.kind = "file"}
\* os.path.join(source_path, name)
join(dir, name) == IF dir = ROOT THEN <<SEP>> \o name ELSE dir \o <<SEP>> \o name

\* C12: after a build of the tree at source_path and the restore of its
\* archive into an empty directory, every file of the restore directory is a
\* file of the tree that is within the size limit and outside the exclusions,
\* at the same relative path and with the same content.
C12_RoundTrip ==
    (Succeeded /\ Restored) =>
        \A f \in RestoredFiles :
            LET p == join(source_path, f.path)
            IN  /\ p \in nodes \cap FileCands
                /\ fsize[p] <= FILE_SIZE_LIMIT
                /\ ~SegExcluded(p, exclude_dirs)
                /\ f.data = content(p)

\* C17: restore_backup returns failure only for a missing archive, a restore
\* directory that cannot be made, or an archive that cannot be opened; once
\* the archive is open it returns success, having extracted every member
\* whose extraction did not fail.
C17_RestoreIsBestEffort ==
    rpc = "done" =>
        /\ rresult.kind = "returned"
        /\ ~rresult.ok => rresult.cause \in {"missing", "makedirs", "open"}
        /\ rresult.ok =>
              \A i \in 1..Len(Published.entries) :
                  i \notin failedMembers =>
                      \E f \in restore_path.files :
                          /\ f.path = Published.entries[i].arcname
                          /\ f.data = content(Published.entries[i].src)
C17_Witness ==
    /\ Restored
    /\ \E i \in failedMembers : \E j \in 1..Len(Published.entries) :
          /\ j > i
          /\ j \notin failedMembers
          /\ \E f \in restore_path.files : f.path = Published.entries[j].arcname

----------------------------------------------------------------------------
\* Vocabulary of the naming claim.

SameSubject(i, j) == i # j /\ backups[i].subject = backups[j].subject

\* C14 as stated: two backup invocations for the same subject compute
\* distinct archive names, whatever the time between them.
C14_NamesAlwaysDistinct ==
    \A i, j \in 1..Len(backups) :
        SameSubject(i, j) => backups[i].name # backups[j].name

\* C14, amended: two backup invocations for the same subject compute distinct
\* archive names exactly when the clock shows different seconds at the two
\* invocations; within one second they compute the same name.
C14_NamesDistinctAcrossSeconds ==
    \A i, j \in 1..Len(backups) :
        SameSubject(i, j) =>
            (backups[i].name # backups[j].name
                <=> Second(backups[i].at) # Second(backups[j].at))
C14_Witness ==
    \E i, j \in 1..Len(backups) :
        /\ SameSubject(i, j)
        /\ Second(backups[i].at) # Second(backups[j].at)
        /\ backups[i].name # backups[j].name

\* C21: when the configured time of a day arrives, a daily and a monthly job
\* become due whatever the day and a weekly job only on its fixed weekday;
\* the backup of a due job runs, except that the backup of a monthly job runs
\* if and only if the day is day 1 of the month.
C21_FiringStep ==
    firings' # firings =>
        \A i \in 1..Len(jobs') :
            jobs'[i].due <=> (jobs'[i].frequency = "weekly" => jobs'[i].sunday)
C21_StartStep ==
    \A r \in 1..Len(runners) :
        (runners[r].pc = "run" /\ runners'[r].pc # "run") =>
            LET j == Head(runners[r].todo)
            IN  /\ j.frequency = "weekly" => j.sunday
                /\ runners'[r].pc = "job" <=> (j.frequency = "monthly" => j.first)
C21_TriggerSemantics == [][C21_FiringStep /\ C21_StartStep]_vars
C21_Witness ==
    /\ \E r \in 1..Len(runners) :
          /\ runners[r].pc = "job"
          /\ Head(runners[r].todo).frequency = "monthly"
          /\ Head(runners[r].todo).first
    /\ firings = 2

\* C22: specific_directory_backup on a directory that does not exist returns
\* a failure without a scan and without a change to the backup directory;
\* restore_backup on an archive that does not exist returns a failure without
\* making the restore directory.
C22_RejectStep ==
    (pc = "start" /\ pc' = "rejected") =>
        /\ ~result'.ok
        /\ fs' = fs
        /\ totals' = totals /\ processed' = processed
C22_RestoreStep ==
    (rpc = "idle" /\ rpc' # "idle" /\ ~Exists(fs[dest_path])) =>
        /\ rpc' = "done"
        /\ rresult' = Returned(FALSE, "missing")
        /\ restore_path' = restore_path
        /\ fs' = fs
C22_ValidationHasNoEffect == [][C22_RejectStep /\ C22_RestoreStep]_vars
C22_Witness ==
    /\ pc = "rejected" /\ result = Returned(FALSE, "directory")
    /\ rpc = "done" /\ rresult = Returned(FALSE, "missing")
    /\ ~restore_path.exists
    /\ \A x \in {dest_path, temp_dest_path} : ~Exists(fs[x])

----------------------------------------------------------------------------
\* Vocabulary of the network claims.

ConnectionFailed == response.kind = "ConnectionError"
NonSuccessStatus == response.kind = "response" /\ response.status # 200
\* A body that is no JSON where the protocol answers with JSON: every answer
\* but the file bytes of a successful download.
MalformedBody ==
    /\ response.kind = "response"
    /\ response.body = "not_json"
    /\ ~(netCall.fn = "download" /\ response.status = 200)
ConnectionMessages ==
    {"Server connection failed: ", "Server connection failed: . Is the server running?"}

\* C23: a call of upload_backup_headless, download_backup_headless,
\* list_server_backups_headless or delete_server_backup_headless sends at most
\* one request, and when the connection fails, the status is not 200 or the
\* response body is malformed, it returns a failure (for a connection
\* failure, with the message of that condition) without another request.
C23_FailuresReportedOnce ==
    /\ requests <= 1
    /\ netPc = "returned" /\ requests = 1 =>
        /\ ConnectionFailed =>
            ~netResult.ok /\ netResult.message \in ConnectionMessages
        /\ NonSuccessStatus => ~netResult.ok
        /\ MalformedBody => ~netResult.ok

----------------------------------------------------------------------------
\* The archive a build is writing or has published.
OwnArchives ==
    {fs[x] : x \in {y \in {dest_path, temp_dest_path} :
                        fs[y].kind = "archive" /\ fs[y].origin = "build"}}
ContainsBackupDir == IsUnder(BACKUP_DIR, source_path) /\ BACKUP_DIR \in nodes

\* C24: in a full backup, and in a specific backup of a directory that
\* contains the backup directory, the archive never holds an entry made from
\* its own temporary file.
C24_NoSelfArchive ==
    ((IsFullCall \/ IsSpecificCall) /\ ContainsBackupDir) =>
        \A a \in OwnArchives : \A i \in 1..Len(a.entries) : a.entries[i].src # P_tmp
\* A specific backup of "/v" has archived the backup directory "/v/l", which
\* held the temporary archive all along.
C24_Witness ==
    /\ Succeeded /\ IsSpecificCall /\ source_path = P_v
    /\ \E e \in EntrySet : e.src = BACKUP_DIR
    /\ processed.files > totals.files

----------------------------------------------------------------------------
\* The runner a call told to stop and that was still alive, inside a job,
\* when the five seconds of the join had passed.
OutlastedJoin(r) == joinTimedOut /\ r = schedThread /\ Alive(r)

\* C25: the request to stop is not lost on a runner that outlasted the join:
\* when its job has finished it finds the stop event set and leaves the loop,
\* so it never enters schedule.run_pending() again.
C25_SignalledRunnerStopsPolling ==
    [][\A r \in 1..Len(runners) :
          (OutlastedJoin(r) /\ runners[r].pc = "check") => runners'[r].pc # "pending"]_vars

----------------------------------------------------------------------------
BothReturned == \A c \in Callers : callers[c].pc = "returned"

\* C26: when two calls of auto_backup_scheduler overlap on two threads, then
\* however their statements interleave, once both have returned at most one
\* runner thread is alive and at most one job is registered.
C26_OverlapKeepsOneRunnerOneJob ==
    (callers # <<>> /\ BothReturned) =>
        (Cardinality(AliveRunners) <= 1 /\ Len(jobs) <= 1)

----------------------------------------------------------------------------
\* A file some build still writes to.
BeingWritten(i) == i # 0 /\ inodes[i].open # {}

C27_FinalNameComplete == names'.dest # 0 => inodes'[names'.dest].open = {}
C27_TempLeftToItsWriter == names'.tmp # names.tmp => ~BeingWritten(names.tmp)
\* C27: when two builds with the same dest_path overlap, the file under the
\* final name is never one that is still being written, and no build renames
\* or removes the temporary file while the other build writes to it.
C27_OverlappingBuildsAreSafe ==
    [][C27_FinalNameComplete /\ C27_TempLeftToItsWriter]_vars

----------------------------------------------------------------------------
\* C28: every name list_local_backups_headless returns is that of a file
\* written completely: neither the archive a build is writing nor the file a
\* download is writing into BACKUP_DIR is listed while it is incomplete.
C28_ListedFilesComplete == \A f \in listed : f.complete

----------------------------------------------------------------------------
\* C29: pressed by a logged-in user with an entry selected (and, for the
\* restore, a destination given), each of the three handlers starts exactly
\* one worker thread, which calls the matching engine operation on the
\* selected file of BACKUP_DIR; pressed with no user logged in, it logs the
\* warning and starts nothing.
C29_HandlerStartsOneWorker ==
    [][handled'.op \in GuiOps /\ guiCalls' = guiCalls + 1 =>
          IF handled'.logged_in
          THEN handled'.valid =>
                  /\ Len(workers') = Len(workers) + 1
                  /\ workers'[Len(workers')].target = EngineOperation(handled'.op)
                  /\ workers'[Len(workers')].dir = "BACKUP_DIR"
          ELSE handled'.outcome = "Please log in first." /\ workers' = workers]_vars

\* C30: the object DEFAULT_CONFIG holds the values of line 21 for ever,
\* whatever load_config, save_config and save_auto_backup_config are called,
\* so every fallback of load_config returns those values.
C30_DefaultsNeverChange == default_config = DEFAULT_CONFIG
====
